---- MODULE Spec2Model ----
(***************************************************************************)
(* Model of the Meraki Dashboard API client (src/task-4/main.py, the       *)
(* completed variant of the four course steps).                            *)
(*                                                                         *)
(* Python values are modelled as follows.                                  *)
(*   - a dict with string keys is a TLA+ function from its keys to its     *)
(*     values (a record); a missing key is a key outside DOMAIN;           *)
(*   - a parsed JSON body is a tagged record (PyList, PyDict, ...), so     *)
(*     that values of different Python types can be compared;              *)
(*   - the result of a call is Ok(value) or Raise(exception name);         *)
(*   - availability_percentage, a float rounded to two decimals, is kept   *)
(*     as an integer number of hundredths of a percent (50.0 is 5000).     *)
(***************************************************************************)
EXTENDS Integers, Sequences, FiniteSets, TLC

(* ---------------------------------------------------------------------- *)
(* Bounds of the model                                                     *)
(* ---------------------------------------------------------------------- *)
\* longest device list handed to get_device_details / generate_network_report
MaxDevices == 2
\* longest status list handed to get_device_details / generate_network_report
MaxStatuses == 2

(* ---------------------------------------------------------------------- *)
(* Python values                                                           *)
(* ---------------------------------------------------------------------- *)
Ok(v) == [exc |-> "none", val |-> v]
Raise(e) == [exc |-> e]
NotCalled == [exc |-> "not_called"]
Returned(r) == r.exc = "none"
Raised(r) == r.exc \notin {"none", "not_called"}

EmptyDict == [k \in {} |-> ""]
DictSet(d, k, v) == [x \in (DOMAIN d) \cup {k} |-> IF x = k THEN v ELSE d[x]]
DictGet(d, k, default) == IF k \in DOMAIN d THEN d[k] ELSE default

SeqsUpTo(X, n) == UNION {[1..m -> X] : m \in 0..n}

(* ---------------------------------------------------------------------- *)
(* get_device_details                                                      *)
(* ---------------------------------------------------------------------- *)
\* mutant: the first entry of a serial wins (setdefault instead of assignment)
RECURSIVE status_lookup_first_wins(_, _)
status_lookup_first_wins(statuses, acc) ==
    IF statuses = <<>> THEN acc
    ELSE LET s == Head(statuses) IN
         status_lookup_first_wins(Tail(statuses),
             IF "serial" \in DOMAIN s /\ s.serial \notin DOMAIN acc
                 THEN DictSet(acc, s.serial, s.status) ELSE acc)

\* {s['serial']: s['status'] for s in statuses if 'serial' in s}: entries are
\* inserted in list order, a later entry overwrites an earlier one with the
\* same serial; an entry without 'serial' is skipped before s['status'] is read.
RECURSIVE status_lookup_from(_, _)
status_lookup_from(statuses, acc) ==
    IF statuses = <<>> THEN acc
    ELSE LET s == Head(statuses) IN
         status_lookup_from(Tail(statuses),
             IF "serial" \in DOMAIN s THEN DictSet(acc, s.serial, s.status) ELSE acc)

status_lookup(statuses) == status_lookup_from(statuses, EmptyDict)

\* the comprehension raises KeyError at an entry that has 'serial' but no 'status'
status_lookup_raises(statuses) ==
    \E i \in DOMAIN statuses :
        "serial" \in DOMAIN statuses[i] /\ "status" \notin DOMAIN statuses[i]

\* mutant: keeps a status the device record already carries (setdefault)
device_info_keep_own(device, lookup) ==
    IF "status" \in DOMAIN device THEN device
    ELSE DictSet(device, "status", DictGet(lookup, device.serial, "unknown"))

\* device_info = device.copy(); device_info['status'] = status_lookup.get(serial, 'unknown')
device_info(device, lookup) ==
    DictSet(device, "status", DictGet(lookup, device.serial, "unknown"))

RECURSIVE detailed_devices_from(_, _)
detailed_devices_from(devices, lookup) ==
    IF devices = <<>> THEN <<>>
    ELSE <<device_info(Head(devices), lookup)>>
             \o detailed_devices_from(Tail(devices), lookup)

\* mutant: an inner join, devices without a status entry are dropped
RECURSIVE matched_devices_from(_, _)
matched_devices_from(devices, lookup) ==
    IF devices = <<>> THEN <<>>
    ELSE (IF Head(devices).serial \in DOMAIN lookup
             THEN <<device_info(Head(devices), lookup)>> ELSE <<>>)
             \o matched_devices_from(Tail(devices), lookup)

get_device_details_inner_join(devices, statuses) ==
    IF status_lookup_raises(statuses) THEN Raise("KeyError")
    ELSE IF \E i \in DOMAIN devices : "serial" \notin DOMAIN devices[i]
        THEN Raise("KeyError")
    ELSE Ok(matched_devices_from(devices, status_lookup(statuses)))

\* get_device_details(devices, statuses): device['serial'] raises KeyError at
\* the first device without a serial, otherwise one record per device, in order
get_device_details(devices, statuses) ==
    IF status_lookup_raises(statuses) THEN Raise("KeyError")
    ELSE IF \E i \in DOMAIN devices : "serial" \notin DOMAIN devices[i]
        THEN Raise("KeyError")
    ELSE Ok(detailed_devices_from(devices, status_lookup(statuses)))

(* ---------------------------------------------------------------------- *)
(* generate_network_report                                                 *)
(* ---------------------------------------------------------------------- *)
\* sum(1 for d in detailed_devices if d['status'] == st)
RECURSIVE count_status(_, _)
count_status(detailed, st) ==
    IF detailed = <<>> THEN 0
    ELSE (IF Head(detailed).status = st THEN 1 ELSE 0) + count_status(Tail(detailed), st)

\* round(x, 2) for x = num / den * 100, in hundredths: the nearest hundredth,
\* a tie going to the even one (Python rounds half to even). A tie needs den
\* to be a multiple of 64; the float quotient rounds as the exact one for
\* every den below 160.
round2(num, den) ==
    LET scaled == num * 10000
        q == scaled \div den
        r == scaled % den
    IN  IF 2 * r < den THEN q
        ELSE IF 2 * r > den THEN q + 1
        ELSE IF q % 2 = 0 THEN q ELSE q + 1

\* mutant: the division without its guard
availability_percentage_unguarded(online_devices, total_devices) ==
    IF total_devices = 0 THEN Raise("ZeroDivisionError")
    ELSE Ok(round2(online_devices, total_devices))

\* round((online_devices / total_devices * 100), 2) if total_devices > 0 else 0
availability_percentage(online_devices, total_devices) ==
    IF total_devices > 0 THEN Ok(round2(online_devices, total_devices)) ELSE Ok(0)

\* mutant: counts every device that is not offline as online
summary_online_is_rest(detailed) ==
    LET total_devices == Len(detailed)
        offline_devices == count_status(detailed, "offline")
        online_devices == total_devices - offline_devices
        avail == availability_percentage(online_devices, total_devices)
    IN  IF Raised(avail) THEN avail
        ELSE Ok([total_devices |-> total_devices,
                 online_devices |-> online_devices,
                 offline_devices |-> offline_devices,
                 availability_percentage |-> avail.val])

\* the 'summary' dict of the report
summary(detailed) ==
    LET total_devices == Len(detailed)
        online_devices == count_status(detailed, "online")
        offline_devices == count_status(detailed, "offline")
        avail == availability_percentage(online_devices, total_devices)
    IN  IF Raised(avail) THEN avail
        ELSE Ok([total_devices |-> total_devices,
                 online_devices |-> online_devices,
                 offline_devices |-> offline_devices,
                 availability_percentage |-> avail.val])

\* generate_network_report(org_name, network_name, devices, statuses); now is
\* datetime.now().isoformat()
generate_network_report(org_name, network_name, devices, statuses, now) ==
    LET detailed == get_device_details(devices, statuses) IN
    IF Raised(detailed) THEN detailed
    ELSE LET sm == summary(detailed.val) IN
         IF Raised(sm) THEN sm
         ELSE Ok([timestamp |-> now,
                  organization |-> org_name,
                  network |-> network_name,
                  summary |-> sm.val,
                  devices |-> detailed.val])

(* ---------------------------------------------------------------------- *)
(* Typed Python values (environment values and parsed JSON bodies)         *)
(* ---------------------------------------------------------------------- *)
PyNone == [type |-> "NoneType"]
PyStr(s) == [type |-> "str", str |-> s]
PyInt(n) == [type |-> "int", int |-> n]
PyBool(b) == [type |-> "bool", bool |-> b]
PyList(items) == [type |-> "list", items |-> items]
PyDict(d) == [type |-> "dict", dict |-> d]

\* Python truth value testing (`not x`, `x or y`, `if x`)
Truthy(v) ==
    CASE v.type = "NoneType" -> FALSE
      [] v.type = "str" -> v.str # ""
      [] v.type = "int" -> v.int # 0
      [] v.type = "bool" -> v.bool
      [] v.type = "list" -> Len(v.items) > 0
      [] v.type = "dict" -> DOMAIN v.dict # {}

(* ---------------------------------------------------------------------- *)
(* Task 1: get_api_key, get_headers                                        *)
(* ---------------------------------------------------------------------- *)
\* os.getenv('MERAKI_API_KEY'): None when unset, the string otherwise
EnvValues == {PyNone, PyStr(""), PyStr("k3y")}

\* get_api_key(): ValueError when the variable is unset or empty
get_api_key(env) ==
    IF ~Truthy(env) THEN Raise("ValueError") ELSE Ok(env.str)

\* get_headers()
get_headers(env) ==
    LET api_key == get_api_key(env) IN
    IF Raised(api_key) THEN api_key
    ELSE Ok(("X-Cisco-Meraki-API-Key" :> api_key.val)
                @@ ("Content-Type" :> "application/json"))

(* ---------------------------------------------------------------------- *)
(* Task 2: make_api_request and the fetchers                               *)
(* ---------------------------------------------------------------------- *)
base_url == "https://api.meraki.com/api/v1"

\* the exception classes the handlers of make_api_request tell apart
IsHTTPError(e) == e = "HTTPError"
IsRequestException(e) == e \in {"HTTPError", "ConnectionError", "Timeout"}

\* What the network does with one GET: requests.get raises a transport error,
\* raise_for_status raises HTTPError, response.json() raises on a body that is
\* not JSON (a ValueError), or the body parses to a value.
NetFailures == {[exc |-> "ConnectionError"], [exc |-> "Timeout"],
                [exc |-> "HTTPError"], [exc |-> "ValueError"]}
NetOk(body) == [exc |-> "none", body |-> body]

\* The result of make_api_request: exc/val as for every call, out the lines it
\* printed, get the URLs handed to requests.get.
RequestResult(exc, val, out, get) == [exc |-> exc, val |-> val, out |-> out, get |-> get]

\* mutant: without the final `except Exception` handler
make_api_request_no_catch_all(endpoint, env, net) ==
    LET url == base_url \o endpoint
        headers == get_headers(env)
        get == IF Raised(headers) THEN <<>> ELSE <<url>>
        e == IF Raised(headers) THEN headers.exc ELSE net.exc
    IN  IF e = "none" THEN RequestResult("none", net.body, <<>>, get)
        ELSE IF IsHTTPError(e)
            THEN RequestResult("none", PyNone, <<"HTTP error occurred: " \o e>>, get)
        ELSE IF IsRequestException(e)
            THEN RequestResult("none", PyNone, <<"Request error occurred: " \o e>>, get)
        ELSE RequestResult(e, PyNone, <<>>, get)

\* mutant: the GET goes out before the headers are asked for (a session
\* that adds the key to a request already under way)
make_api_request_get_first(endpoint, env, net) ==
    LET url == base_url \o endpoint
        headers == get_headers(env)
        get == <<url>>
        e == IF Raised(headers) THEN headers.exc ELSE net.exc
    IN  IF e = "none" THEN RequestResult("none", net.body, <<>>, get)
        ELSE IF IsHTTPError(e)
            THEN RequestResult("none", PyNone, <<"HTTP error occurred: " \o e>>, get)
        ELSE IF IsRequestException(e)
            THEN RequestResult("none", PyNone, <<"Request error occurred: " \o e>>, get)
        ELSE RequestResult("none", PyNone, <<"Unexpected error: " \o e>>, get)

\* make_api_request(endpoint): get_headers() is evaluated inside the try, as
\* an argument of requests.get, so its ValueError is handled like any failure
make_api_request(endpoint, env, net) ==
    LET url == base_url \o endpoint
        headers == get_headers(env)
        get == IF Raised(headers) THEN <<>> ELSE <<url>>
        e == IF Raised(headers) THEN headers.exc ELSE net.exc
    IN  IF e = "none" THEN RequestResult("none", net.body, <<>>, get)
        ELSE IF IsHTTPError(e)
            THEN RequestResult("none", PyNone, <<"HTTP error occurred: " \o e>>, get)
        ELSE IF IsRequestException(e)
            THEN RequestResult("none", PyNone, <<"Request error occurred: " \o e>>, get)
        ELSE RequestResult("none", PyNone, <<"Unexpected error: " \o e>>, get)

\* mutant: coalesces None only (`x if x is not None else []`)
or_empty_list_none_only(v) == IF v = PyNone THEN PyList(<<>>) ELSE v

\* `make_api_request(endpoint) or []`
or_empty_list(v) == IF Truthy(v) THEN v ELSE PyList(<<>>)

\* a fetcher's return statement; an exception of make_api_request propagates
fetch(endpoint, env, net) ==
    LET r == make_api_request(endpoint, env, net) IN
    IF Raised(r) THEN r ELSE [r EXCEPT !.val = or_empty_list(r.val)]

get_organizations(env, net) == fetch("/organizations", env, net)

get_networks(org_id, env, net) ==
    fetch("/organizations/" \o org_id \o "/networks", env, net)

get_network_inventory(network_id, env, net) ==
    fetch("/networks/" \o network_id \o "/devices", env, net)

get_device_availabilities(network_id, serial, env, net) ==
    fetch("/networks/" \o network_id \o "/devices/" \o serial \o "/availabilities",
          env, net)

get_device_statuses(org_id, env, net) ==
    fetch("/organizations/" \o org_id \o "/devices/statuses", env, net)

(* ---------------------------------------------------------------------- *)
(* Task 4: save_to_file                                                    *)
(* ---------------------------------------------------------------------- *)
\* What the file system does with one save: open() fails, json.dump fails
\* part-way, the flush of close() fails, or everything is written.
IoOutcomes == {"ok", "open_fails", "write_fails", "close_fails"}

\* The result of save_to_file: exc/val/out as above; opened: open() returned a
\* handle; written: all the data reached the file; handle: the state of the
\* file handle at return ("none" when open() gave none).
SaveResult(exc, val, out, opened, written, handle) ==
    [exc |-> exc, val |-> val, out |-> out,
     opened |-> opened, written |-> written, handle |-> handle]

\* mutant: open / json.dump / close in sequence, without the with statement
save_to_file_no_with(data, filename, io) ==
    LET opened == io # "open_fails"
        written == io = "ok"
        handle == IF ~opened THEN "none"
                  ELSE IF io = "write_fails" THEN "open" ELSE "closed"
    IN  IF io = "ok"
        THEN SaveResult("none", TRUE, <<"Data saved to " \o filename>>,
                        opened, written, handle)
        ELSE SaveResult("none", FALSE, <<"Error saving to " \o filename>>,
                        opened, written, handle)

\* save_to_file(data, filename): the with statement closes the handle when
\* its block is left, by return or by exception; `except Exception` turns the
\* OSError of open, json.dump or close into False
save_to_file(data, filename, io) ==
    LET opened == io # "open_fails"
        written == io = "ok"
        handle == IF opened THEN "closed" ELSE "none"
    IN  IF io = "ok"
        THEN SaveResult("none", TRUE, <<"Data saved to " \o filename>>,
                        opened, written, handle)
        ELSE SaveResult("none", FALSE, <<"Error saving to " \o filename>>,
                        opened, written, handle)

(* ---------------------------------------------------------------------- *)
(* Python operations main applies to what the fetchers return              *)
(* ---------------------------------------------------------------------- *)
\* v[0]
subscript0(v) ==
    CASE v.type = "list" -> IF Len(v.items) > 0 THEN Ok(v.items[1]) ELSE Raise("IndexError")
      [] v.type = "dict" -> Raise("KeyError")
      [] OTHER -> Raise("TypeError")

\* d[key] on a dict
item(d, key) == IF key \in DOMAIN d THEN Ok(d[key]) ELSE Raise("KeyError")

\* mutant: reads the last record instead of the first (v[-1][key])
first_item_last(v, key) ==
    LET first == subscript0(v) IN
    IF Raised(first) THEN first ELSE item(v.items[Len(v.items)], key)

\* v[0][key], the way main reads first_org['name'], first_network['id'], ...
first_item(v, key) ==
    LET first == subscript0(v) IN
    IF Raised(first) THEN first ELSE item(first.val, key)

\* len(v)
py_len(v) ==
    CASE v.type = "list" -> Ok(Len(v.items))
      [] v.type = "dict" -> Ok(Cardinality(DOMAIN v.dict))
      [] OTHER -> Raise("TypeError")

\* generate_network_report on what the fetchers returned. Iterating a dict
\* yields its keys: as a status entry a key string never contains 'serial'
\* here and is skipped, as a device it has no copy() (AttributeError).
report_of(org_name, network_name, devs, stats, now) ==
    LET status_items == IF stats.type = "list" THEN stats.items ELSE <<>> IN
    IF devs.type = "list"
    THEN generate_network_report(org_name, network_name, devs.items, status_items, now)
    ELSE IF status_lookup_raises(status_items) THEN Raise("KeyError")
    ELSE Raise("AttributeError")

(* ---------------------------------------------------------------------- *)
(* Input domains                                                           *)
(* ---------------------------------------------------------------------- *)
Statuses == {"online", "offline", "alerting"}

\* device records: with and without a name, one that already carries a
\* 'status' of its own, one without a serial
Devices ==
    {[serial |-> "A", model |-> "X"],
     [serial |-> "B", model |-> "Y"],
     [serial |-> "A", model |-> "X", status |-> "offline"],
     [serial |-> "C", model |-> "X", name |-> "ap1"],
     [model |-> "Z"]}

\* status entries: a status entry carries a 'status'; one has no 'serial'
StatusEntries ==
    {[serial |-> sn, status |-> st] : sn \in {"A", "B"}, st \in Statuses}
        \cup {[status |-> "online"]}

DeviceLists == SeqsUpTo(Devices, MaxDevices)
StatusLists == SeqsUpTo(StatusEntries, MaxStatuses)

\* bodies that are falsy in Python, and the error object of the API
FalsyBodies == {PyNone, PyList(<<>>), PyDict(EmptyDict), PyStr(""), PyInt(0), PyBool(FALSE)}
ErrorBody == PyDict([errors |-> "Invalid API key"])

\* what GET /organizations and GET /organizations/{id}/networks may answer
NamedBodies(p) ==
    {PyList(<<[id |-> p \o "1", name |-> p \o "-one"],
              [id |-> p \o "2", name |-> p \o "-two"]>>),
     PyList(<<[id |-> p \o "1"]>>),
     PyList(<<[name |-> p \o "-one"]>>),
     PyList(<<>>), PyDict(EmptyDict), PyNone, ErrorBody}

\* what GET /networks/{id}/devices may answer
DeviceBodies ==
    {PyList(<<>>),
     PyList(<<[serial |-> "A", model |-> "X"]>>),
     PyList(<<[serial |-> "A", model |-> "X"], [serial |-> "B", model |-> "Y"]>>),
     PyList(<<[model |-> "Z"]>>),
     PyDict(EmptyDict), ErrorBody}

\* what GET /organizations/{id}/devices/statuses may answer
StatusBodies ==
    {PyList(<<>>),
     PyList(<<[serial |-> "A", status |-> "online"]>>),
     PyList(<<[serial |-> "B", status |-> "offline"], [status |-> "online"]>>),
     PyList(<<[serial |-> "A"]>>),
     PyNone, ErrorBody}

Outcomes(bodies) == NetFailures \cup {NetOk(b) : b \in bodies}

\* every body a single request is tried on
AnyBodies == FalsyBodies \cup {ErrorBody, PyInt(7), PyBool(TRUE), PyStr("ok"),
                               PyList(<<[id |-> "1", name |-> "N1"]>>)}

Filenames == {"organizations.json", "networks.json", "devices.json", "network_report.json"}

(* ---------------------------------------------------------------------- *)
(* State                                                                   *)
(* ---------------------------------------------------------------------- *)
VARIABLES
    MERAKI_API_KEY,     \* os.getenv('MERAKI_API_KEY') of the process
    pc,                 \* the position of main
    organizations,      \* main's local variables
    networks,
    devices,
    statuses,
    report,             \* the result of generate_network_report
    log,                \* what the run did, in program order
    fs,                 \* per output file, what the last save did to it
    D,                  \* the device list get_device_details is tried on
    S,                  \* the status list get_device_details is tried on
    detailed_devices,   \* the result of get_device_details(D, S)
    net,                \* what the network does with the request tried
    request,            \* the result of make_api_request tried alone
    fetched             \* the fetcher tried, the request it made, its result

vars == <<MERAKI_API_KEY, pc, organizations, networks, devices, statuses, report,
          log, fs, D, S, detailed_devices, net, request, fetched>>

mainVars == <<pc, organizations, networks, devices, statuses, log, fs>>
unitVars == <<D, S, detailed_devices, net, request, fetched>>

\* a local variable main has not assigned yet
Unbound == [type |-> "unbound"]
NoFile == [opened |-> FALSE, written |-> FALSE, handle |-> "none"]
FileState(r) == [opened |-> r.opened, written |-> r.written, handle |-> r.handle]

\* the events of log
Printed(text) == [op |-> "print", arg |-> text, res |-> ""]
Got(url) == [op |-> "requests.get", arg |-> url, res |-> ""]
Fetched(fn, id, r) ==
    [op |-> fn, arg |-> id, res |-> IF r.val = PyList(<<>>) THEN "empty" ELSE "nonempty"]
Saved(filename, r) ==
    [op |-> "save_to_file", arg |-> filename,
     res |-> IF Raised(r) THEN "raise" ELSE IF r.val THEN "True" ELSE "False"]
Generated(r) ==
    [op |-> "generate_network_report", arg |-> "",
     res |-> IF Raised(r) THEN "raise" ELSE "report"]

PrintEvents(out) == [i \in 1..Len(out) |-> Printed(out[i])]
\* what a request leaves in the log: the GET it issued, then what it printed
RequestEvents(r) == [i \in 1..Len(r.get) |-> Got(r.get[i])] \o PrintEvents(r.out)
\* what a save leaves in the log: the call, then what it printed
SaveEvents(filename, r) == <<Saved(filename, r)>> \o PrintEvents(r.out)

\* `except Exception as e: print(f"Error: {e}")` of main
ErrorLine(e) == Printed("Error: " \o e)

\* mutant: `except ValueError as e`
main_catches_value_error_only(e) == e = "ValueError"

\* `except Exception`: every exception a step of main raises derives from
\* Exception
main_catches(e) == TRUE

\* An exception e raised inside the try block of main, after the events pre:
\* the handler prints it and main returns; an exception no handler catches
\* leaves main and ends the process with a traceback.
ExceptExit(pre, e) ==
    /\ log' = IF main_catches(e) THEN pre \o <<ErrorLine(e)>> ELSE pre
    /\ pc' = IF main_catches(e) THEN "done" ELSE "raised"

\* the exit status of the process: main sets none, an exception that leaves
\* main makes the interpreter exit with status 1
exit_code == IF pc = "raised" THEN 1 ELSE 0

fixed_now == "2026-01-01T00:00:00"

MainInit ==
    /\ pc = "start"
    /\ organizations = Unbound
    /\ networks = Unbound
    /\ devices = Unbound
    /\ statuses = Unbound
    /\ log = <<>>
    /\ fs = [f \in Filenames |-> NoFile]

UnitIdle ==
    /\ D = <<>>
    /\ S = <<>>
    /\ detailed_devices = NotCalled
    /\ net = NetOk(PyNone)
    /\ request = NotCalled
    /\ fetched = NotCalled

(* ---------------------------------------------------------------------- *)
(* main                                                                    *)
(* ---------------------------------------------------------------------- *)
\* mutant: `if organizations is None`
organizations_missing_none_only(orgs) == orgs = PyNone

\* `if not organizations:`
organizations_missing(orgs) == ~Truthy(orgs)

\* mutant: `if networks is None`
networks_missing_none_only(nets) == nets = PyNone

\* `if not networks:`
networks_missing(nets) == ~Truthy(nets)

\* `if statuses:`
statuses_present(stats) == Truthy(stats)

\* mutant: organizations.json is not written before the networks are fetched
\* (the saves deferred to the end of the run)
step_after_organizations_deferred == "fetch_networks"

\* the statement that follows the emptiness check of the organizations:
\* save_to_file(organizations, "organizations.json")
step_after_organizations == "save_organizations"

\* print, organizations = get_organizations(), the emptiness check
FetchOrganizations ==
    /\ pc = "start"
    /\ \E n \in Outcomes(NamedBodies("org")) :
        LET r == get_organizations(MERAKI_API_KEY, n)
            pre == log \o <<Printed("Fetching Meraki organization data...")>>
                       \o RequestEvents(r)
            call == Fetched("get_organizations", "", r)
        IN  IF Raised(r)
            THEN /\ ExceptExit(pre, r.exc)
                 /\ UNCHANGED organizations
            ELSE /\ organizations' = r.val
                 /\ IF organizations_missing(r.val)
                    THEN /\ log' = pre \o <<call,
                                Printed("No organizations found or API error occurred.")>>
                         /\ pc' = "done"
                    ELSE /\ log' = pre \o <<call>>
                         /\ pc' = step_after_organizations
    /\ UNCHANGED <<MERAKI_API_KEY, networks, devices, statuses, report, fs>>
    /\ UNCHANGED unitVars

\* save_to_file(organizations, ...), first_org = organizations[0], print its name
SaveOrganizations ==
    /\ pc = "save_organizations"
    /\ \E io \in IoOutcomes :
        LET r == save_to_file(organizations, "organizations.json", io)
            pre == log \o SaveEvents("organizations.json", r)
            name == first_item(organizations, "name")
        IN  /\ fs' = [fs EXCEPT !["organizations.json"] = FileState(r)]
            /\ IF Raised(r)
               THEN ExceptExit(pre, r.exc)
               ELSE IF Raised(name)
               THEN ExceptExit(pre, name.exc)
               ELSE /\ log' = pre \o <<Printed("Organization: " \o name.val)>>
                    /\ pc' = "fetch_networks"
    /\ UNCHANGED <<MERAKI_API_KEY, organizations, networks, devices, statuses, report>>
    /\ UNCHANGED unitVars

\* networks = get_networks(first_org['id']), the emptiness check
FetchNetworks ==
    /\ pc = "fetch_networks"
    /\ LET org_id == first_item(organizations, "id") IN
       IF Raised(org_id)
       THEN /\ ExceptExit(log, org_id.exc)
            /\ UNCHANGED networks
       ELSE \E n \in Outcomes(NamedBodies("net")) :
            LET r == get_networks(org_id.val, MERAKI_API_KEY, n)
                pre == log \o RequestEvents(r)
                call == Fetched("get_networks", org_id.val, r)
            IN  IF Raised(r)
                THEN /\ ExceptExit(pre, r.exc)
                     /\ UNCHANGED networks
                ELSE /\ networks' = r.val
                     /\ IF networks_missing(r.val)
                        THEN /\ log' = pre \o <<call, Printed("No networks found.")>>
                             /\ pc' = "done"
                        ELSE /\ log' = pre \o <<call>>
                             /\ pc' = "save_networks"
    /\ UNCHANGED <<MERAKI_API_KEY, organizations, devices, statuses, report, fs>>
    /\ UNCHANGED unitVars

\* save_to_file(networks, ...), first_network = networks[0], print its name
SaveNetworks ==
    /\ pc = "save_networks"
    /\ \E io \in IoOutcomes :
        LET r == save_to_file(networks, "networks.json", io)
            pre == log \o SaveEvents("networks.json", r)
            name == first_item(networks, "name")
        IN  /\ fs' = [fs EXCEPT !["networks.json"] = FileState(r)]
            /\ IF Raised(r)
               THEN ExceptExit(pre, r.exc)
               ELSE IF Raised(name)
               THEN ExceptExit(pre, name.exc)
               ELSE /\ log' = pre \o <<Printed("Network: " \o name.val)>>
                    /\ pc' = "fetch_inventory"
    /\ UNCHANGED <<MERAKI_API_KEY, organizations, networks, devices, statuses, report>>
    /\ UNCHANGED unitVars

\* devices = get_network_inventory(first_network['id']), print their number
FetchInventory ==
    /\ pc = "fetch_inventory"
    /\ LET network_id == first_item(networks, "id") IN
       IF Raised(network_id)
       THEN /\ ExceptExit(log, network_id.exc)
            /\ UNCHANGED devices
       ELSE \E n \in Outcomes(DeviceBodies) :
            LET r == get_network_inventory(network_id.val, MERAKI_API_KEY, n)
                pre == log \o RequestEvents(r)
                call == Fetched("get_network_inventory", network_id.val, r)
                count == py_len(r.val)
            IN  IF Raised(r)
                THEN /\ ExceptExit(pre, r.exc)
                     /\ UNCHANGED devices
                ELSE /\ devices' = r.val
                     /\ IF Raised(count)
                        THEN /\ ExceptExit(pre \o <<call>>, count.exc)
                        ELSE /\ log' = pre \o <<call,
                                    Printed("Devices: " \o ToString(count.val) \o " found")>>
                             /\ pc' = "save_devices"
    /\ UNCHANGED <<MERAKI_API_KEY, organizations, networks, statuses, report, fs>>
    /\ UNCHANGED unitVars

\* save_to_file(devices, "devices.json")
SaveDevices ==
    /\ pc = "save_devices"
    /\ \E io \in IoOutcomes :
        LET r == save_to_file(devices, "devices.json", io)
            pre == log \o SaveEvents("devices.json", r)
        IN  /\ fs' = [fs EXCEPT !["devices.json"] = FileState(r)]
            /\ IF Raised(r)
               THEN ExceptExit(pre, r.exc)
               ELSE log' = pre /\ pc' = "fetch_statuses"
    /\ UNCHANGED <<MERAKI_API_KEY, organizations, networks, devices, statuses, report>>
    /\ UNCHANGED unitVars

\* print, statuses = get_device_statuses(first_org['id']), `if statuses:`
FetchStatuses ==
    /\ pc = "fetch_statuses"
    /\ LET org_id == first_item(organizations, "id") IN
       IF Raised(org_id)
       THEN /\ ExceptExit(log, org_id.exc)
            /\ UNCHANGED statuses
       ELSE \E n \in Outcomes(StatusBodies) :
            LET r == get_device_statuses(org_id.val, MERAKI_API_KEY, n)
                pre == log \o <<Printed("Fetching device status information...")>>
                           \o RequestEvents(r)
                call == Fetched("get_device_statuses", org_id.val, r)
            IN  IF Raised(r)
                THEN /\ ExceptExit(pre, r.exc)
                     /\ UNCHANGED statuses
                ELSE /\ statuses' = r.val
                     /\ IF statuses_present(r.val)
                        THEN /\ log' = pre \o <<call>>
                             /\ pc' = "generate_report"
                        ELSE /\ log' = pre \o <<call,
                                    Printed("Unable to retrieve device status information.")>>
                             /\ pc' = "done"
    /\ UNCHANGED <<MERAKI_API_KEY, organizations, networks, devices, report, fs>>
    /\ UNCHANGED unitVars

\* print, report = generate_network_report(...)
GenerateReport ==
    /\ pc = "generate_report"
    /\ LET r == report_of(first_item(organizations, "name").val,
                          first_item(networks, "name").val,
                          devices, statuses, fixed_now)
           pre == log \o <<Printed("Generating network report..."), Generated(r)>>
       IN  /\ report' = r
           /\ IF Raised(r)
              THEN ExceptExit(pre, r.exc)
              ELSE log' = pre /\ pc' = "save_report"
    /\ UNCHANGED <<MERAKI_API_KEY, organizations, networks, devices, statuses, fs>>
    /\ UNCHANGED unitVars

\* save_to_file(report, "network_report.json"), then the printed summary
SaveReport ==
    /\ pc = "save_report"
    /\ \E io \in IoOutcomes :
        LET r == save_to_file(report.val, "network_report.json", io)
            pre == log \o SaveEvents("network_report.json", r)
            sm == report.val.summary
        IN  /\ fs' = [fs EXCEPT !["network_report.json"] = FileState(r)]
            /\ IF Raised(r)
               THEN ExceptExit(pre, r.exc)
               ELSE /\ pc' = "done"
                    /\ log' = pre \o
                      <<Printed("Network Report Summary:"),
                      Printed("  Organization: " \o report.val.organization),
                      Printed("  Network: " \o report.val.network),
                      Printed("  Total Devices: " \o ToString(sm.total_devices)),
                      Printed("  Online: " \o ToString(sm.online_devices)),
                      Printed("  Offline: " \o ToString(sm.offline_devices)),
                      Printed("  Availability: "
                                \o ToString(sm.availability_percentage) \o "/100%")>>
    /\ UNCHANGED <<MERAKI_API_KEY, organizations, networks, devices, statuses, report>>
    /\ UNCHANGED unitVars

Init ==
    /\ MERAKI_API_KEY \in EnvValues
    /\ report = NotCalled
    /\ MainInit
    /\ UnitIdle

Next ==
    \/ FetchOrganizations
    \/ SaveOrganizations
    \/ FetchNetworks
    \/ SaveNetworks
    \/ FetchInventory
    \/ SaveDevices
    \/ FetchStatuses
    \/ GenerateReport
    \/ SaveReport

Spec == Init /\ [][Next]_vars

\* The run of main as the interpreter executes it: single-threaded, every
\* statement that can run does run.
SpecLive == Init /\ [][Next]_vars /\ WF_vars(Next)

(* ---------------------------------------------------------------------- *)
(* get_device_details and generate_network_report on every input           *)
(* ---------------------------------------------------------------------- *)
InitMerge ==
    /\ D \in DeviceLists
    /\ S \in StatusLists
    /\ detailed_devices = NotCalled
    /\ report = NotCalled
    /\ MERAKI_API_KEY = PyStr("k3y")
    /\ pc = "unit"
    /\ organizations = Unbound
    /\ networks = Unbound
    /\ devices = Unbound
    /\ statuses = Unbound
    /\ log = <<>>
    /\ fs = [f \in Filenames |-> NoFile]
    /\ net = NetOk(PyNone)
    /\ request = NotCalled
    /\ fetched = NotCalled

CallGetDeviceDetails ==
    /\ detailed_devices = NotCalled
    /\ detailed_devices' = get_device_details(D, S)
    /\ UNCHANGED <<MERAKI_API_KEY, report, D, S, net, request, fetched>>
    /\ UNCHANGED mainVars

CallGenerateNetworkReport ==
    /\ report = NotCalled
    /\ report' = generate_network_report("Org", "Net", D, S, fixed_now)
    /\ UNCHANGED <<MERAKI_API_KEY, detailed_devices, D, S, net, request, fetched>>
    /\ UNCHANGED mainVars

NextMerge == CallGetDeviceDetails \/ CallGenerateNetworkReport

SpecMerge == InitMerge /\ [][NextMerge]_vars

(* ---------------------------------------------------------------------- *)
(* make_api_request and the five fetchers on every outcome of one request  *)
(* ---------------------------------------------------------------------- *)
Ids == {"1", "2"}

InitFetch ==
    /\ MERAKI_API_KEY \in EnvValues
    /\ net \in Outcomes(AnyBodies)
    /\ request = NotCalled
    /\ fetched = NotCalled
    /\ D = <<>>
    /\ S = <<>>
    /\ detailed_devices = NotCalled
    /\ report = NotCalled
    /\ pc = "unit"
    /\ organizations = Unbound
    /\ networks = Unbound
    /\ devices = Unbound
    /\ statuses = Unbound
    /\ log = <<>>
    /\ fs = [f \in Filenames |-> NoFile]

\* what a fetcher call leaves in `fetched`: the request it made and its result
FetcherCall(fn, endpoint, result) ==
    [fn |-> fn, request |-> make_api_request(endpoint, MERAKI_API_KEY, net),
     result |-> result]

CallMakeApiRequest ==
    /\ \E endpoint \in {"/organizations", "/networks/1/devices"} :
        request' = make_api_request(endpoint, MERAKI_API_KEY, net)
    /\ UNCHANGED <<MERAKI_API_KEY, report, D, S, detailed_devices, net, fetched>>
    /\ UNCHANGED mainVars

CallGetOrganizations ==
    /\ fetched' = FetcherCall("get_organizations", "/organizations",
                              get_organizations(MERAKI_API_KEY, net))
    /\ UNCHANGED <<MERAKI_API_KEY, report, D, S, detailed_devices, net, request>>
    /\ UNCHANGED mainVars

CallGetNetworks ==
    /\ \E org_id \in Ids :
        fetched' = FetcherCall("get_networks",
                               "/organizations/" \o org_id \o "/networks",
                               get_networks(org_id, MERAKI_API_KEY, net))
    /\ UNCHANGED <<MERAKI_API_KEY, report, D, S, detailed_devices, net, request>>
    /\ UNCHANGED mainVars

CallGetNetworkInventory ==
    /\ \E network_id \in Ids :
        fetched' = FetcherCall("get_network_inventory",
                               "/networks/" \o network_id \o "/devices",
                               get_network_inventory(network_id, MERAKI_API_KEY, net))
    /\ UNCHANGED <<MERAKI_API_KEY, report, D, S, detailed_devices, net, request>>
    /\ UNCHANGED mainVars

CallGetDeviceAvailabilities ==
    /\ \E network_id \in Ids, serial \in {"A"} :
        fetched' = FetcherCall("get_device_availabilities",
                               "/networks/" \o network_id \o "/devices/" \o serial
                                   \o "/availabilities",
                               get_device_availabilities(network_id, serial,
                                                         MERAKI_API_KEY, net))
    /\ UNCHANGED <<MERAKI_API_KEY, report, D, S, detailed_devices, net, request>>
    /\ UNCHANGED mainVars

CallGetDeviceStatuses ==
    /\ \E org_id \in Ids :
        fetched' = FetcherCall("get_device_statuses",
                               "/organizations/" \o org_id \o "/devices/statuses",
                               get_device_statuses(org_id, MERAKI_API_KEY, net))
    /\ UNCHANGED <<MERAKI_API_KEY, report, D, S, detailed_devices, net, request>>
    /\ UNCHANGED mainVars

NextFetch ==
    \/ CallMakeApiRequest
    \/ CallGetOrganizations
    \/ CallGetNetworks
    \/ CallGetNetworkInventory
    \/ CallGetDeviceAvailabilities
    \/ CallGetDeviceStatuses

SpecFetch == InitFetch /\ [][NextFetch]_vars

(* ====================================================================== *)
(* Properties                                                              *)
(* ====================================================================== *)
AllHaveSerial(devs) == \A i \in DOMAIN devs : "serial" \in DOMAIN devs[i]
NonStatus(d) == (DOMAIN d) \ {"status"}
\* the entries of the status list that carry serial sn
EntriesFor(sn) == {j \in DOMAIN S : "serial" \in DOMAIN S[j] /\ S[j].serial = sn}

\* C1: for every device list D whose devices all have a 'serial' and every
\* status list S, get_device_details(D, S) returns a list of exactly len(D)
\* records, the i-th of which has, outside 'status', exactly the fields of the
\* i-th device of D with the same values.
C1_MergeKeepsDevices ==
    (detailed_devices # NotCalled /\ AllHaveSerial(D)) =>
        /\ Returned(detailed_devices)
        /\ Len(detailed_devices.val) = Len(D)
        /\ \A i \in DOMAIN D :
            /\ NonStatus(detailed_devices.val[i]) = NonStatus(D[i])
            /\ \A k \in NonStatus(D[i]) : detailed_devices.val[i][k] = D[i][k]

\* C1 witness: two different devices were merged, one of them without a
\* status entry, and the result keeps both in order.
C1_Witness ==
    /\ Returned(detailed_devices)
    /\ AllHaveSerial(D)
    /\ Len(D) = 2
    /\ D[1].serial = "C"
    /\ D[2].serial = "A"
    /\ EntriesFor("A") # {}
    /\ detailed_devices.val[1].name = "ap1"
    /\ detailed_devices.val[2].model = "X"

\* C2: every record of get_device_details(D, S) has status "unknown" when no
\* entry of S carries the device's serial, and the status of the matching
\* entry when exactly one entry of S carries it, whatever 'status' the input
\* device had.
C2_MergeStatus ==
    (detailed_devices # NotCalled /\ AllHaveSerial(D)) =>
        /\ Returned(detailed_devices)
        /\ \A i \in DOMAIN D :
            /\ EntriesFor(D[i].serial) = {} => detailed_devices.val[i].status = "unknown"
            /\ \A j \in EntriesFor(D[i].serial) :
                EntriesFor(D[i].serial) = {j} => detailed_devices.val[i].status = S[j].status

\* C2 witness: a device that carried 'status': 'offline' itself got the
\* status of its only entry, and another device without entry got "unknown".
C2_Witness ==
    /\ Returned(detailed_devices)
    /\ AllHaveSerial(D)
    /\ Len(D) = 2
    /\ "status" \in DOMAIN D[1]
    /\ D[1].status = "offline"
    /\ Cardinality(EntriesFor(D[1].serial)) = 1
    /\ detailed_devices.val[1].status = "online"
    /\ "status" \notin DOMAIN D[2]
    /\ EntriesFor(D[2].serial) = {}
    /\ detailed_devices.val[2].status = "unknown"

\* the merged records with status st, counted on the records themselves
MergedWith(st) ==
    {i \in DOMAIN report.val.devices : report.val.devices[i].status = st}

\* C8: the summary built by generate_network_report has total_devices =
\* len(devices), online_devices = number of merged records with status
\* "online", offline_devices = number with status "offline", and
\* online_devices + offline_devices <= total_devices.
C8_SummaryCounts ==
    Returned(report) =>
        /\ report.val.devices = get_device_details(D, S).val
        /\ report.val.summary.total_devices = Len(D)
        /\ report.val.summary.online_devices = Cardinality(MergedWith("online"))
        /\ report.val.summary.offline_devices = Cardinality(MergedWith("offline"))
        /\ report.val.summary.online_devices + report.val.summary.offline_devices
               <= report.val.summary.total_devices

\* C8 witness: a report over two devices, one online and one neither online
\* nor offline.
C8_Witness ==
    /\ Returned(report)
    /\ report.val.summary.total_devices = 2
    /\ report.val.summary.online_devices = 1
    /\ report.val.summary.offline_devices = 0
    /\ \E i \in DOMAIN report.val.devices : report.val.devices[i].status = "alerting"

\* C9: generate_network_report never divides by zero: availability_percentage
\* is 0 for the empty device list, otherwise it is online_devices /
\* total_devices * 100 rounded to two decimals (within half a hundredth of the
\* quotient, between 0 and 100), 50.0 for 1 online device out of 2.
C9_Availability ==
    report # NotCalled =>
        /\ report.exc # "ZeroDivisionError"
        /\ D = <<>> => Returned(report) /\ report.val.summary.availability_percentage = 0
        /\ (Returned(report) /\ D # <<>>) =>
            LET sm == report.val.summary
                a == sm.availability_percentage
                diff == a * sm.total_devices - sm.online_devices * 10000
            IN  /\ a \in 0..10000
                /\ 2 * diff <= sm.total_devices
                /\ 2 * (0 - diff) <= sm.total_devices
                /\ (sm.online_devices = 1 /\ sm.total_devices = 2) => a = 5000

\* C9 witness: one online device out of two gave 50.0.
C9_Witness ==
    /\ Returned(report)
    /\ report.val.summary.online_devices = 1
    /\ report.val.summary.total_devices = 2
    /\ report.val.summary.availability_percentage = 5000

\* C9 witness of the guarded case: the report of an empty device list.
C9_WitnessEmpty ==
    /\ Returned(report)
    /\ D = <<>>
    /\ S # <<>>
    /\ report.val.summary.availability_percentage = 0

(* ---------------------------------------------------------------------- *)
(* Properties of a run of main                                             *)
(* ---------------------------------------------------------------------- *)
KeyMissing == MERAKI_API_KEY \in {PyNone, PyStr("")}
FetchOps == {"get_organizations", "get_networks", "get_network_inventory",
             "get_device_statuses"}
CallOps == FetchOps \cup {"save_to_file"}
NoDataLine == Printed("No organizations found or API error occurred.")

\* C3: with MERAKI_API_KEY unset or empty, the error of get_api_key reaches
\* the catch-all of main, which prints "Error: ..."; the run does not end
\* with "No organizations found or API error occurred."
C3_MissingKeyReachesCatchAll ==
    (pc = "done" /\ KeyMissing) =>
        /\ \E i \in DOMAIN log : log[i] = ErrorLine("ValueError")
        /\ \A i \in DOMAIN log : log[i] # NoDataLine

\* no fetch and no save follows a fetch of ops that returned the empty list
NoCallAfterEmpty(ops) ==
    \A i \in DOMAIN log :
        (log[i].op \in ops /\ log[i].res = "empty") =>
            \A j \in DOMAIN log : j > i => log[j].op \notin CallOps

\* a fetch of ops that returned the empty list is followed by one printed
\* message, with which the run ends
MessageAndStop(ops) ==
    \A i \in DOMAIN log :
        (log[i].op \in ops /\ log[i].res = "empty") =>
            /\ pc = "done"
            /\ Len(log) = i + 1
            /\ log[i + 1].op = "print"

\* C4, as claimed: whichever of the four fetched lists is empty, no fetch and
\* no save_to_file call happens after the fetch that returned it.
C4_AnyEmptyListStops == NoCallAfterEmpty(FetchOps)

\* C4, amended: when the organizations, networks or device statuses list is
\* empty, main prints a message and stops, with no fetch and no save after
\* that fetch; an empty device inventory does not stop main, which prints the
\* count 0, saves devices.json and fetches the statuses.
C4_EmptyListStops ==
    /\ NoCallAfterEmpty(FetchOps \ {"get_network_inventory"})
    /\ MessageAndStop(FetchOps \ {"get_network_inventory"})
    /\ \A i \in DOMAIN log :
        (log[i].op = "get_network_inventory" /\ log[i].res = "empty") =>
            /\ log[i + 1] = Printed("Devices: 0 found")
            /\ pc = "save_devices"
               \/ \E j \in DOMAIN log :
                    j > i /\ log[j].op = "save_to_file" /\ log[j].arg = "devices.json"
            /\ pc \in {"save_devices", "fetch_statuses"}
               \/ \E j \in DOMAIN log : j > i /\ log[j].op = "get_device_statuses"

\* C4 witness: organizations, networks and a non-empty inventory were
\* fetched and saved, the statuses came back empty, and the run ended with
\* the message.
C4_Witness ==
    /\ pc = "done"
    /\ Len(log) > 2
    /\ log[Len(log)] = Printed("Unable to retrieve device status information.")
    /\ log[Len(log) - 1].op = "get_device_statuses"
    /\ log[Len(log) - 1].res = "empty"
    /\ \E i \in DOMAIN log : log[i].op = "get_network_inventory" /\ log[i].res = "nonempty"

\* C5: when get_organizations returns an empty list, main prints the no-data
\* message and the run performs no further fetch and no save_to_file call.
C5_NoOrganizationsStops ==
    \A i \in DOMAIN log :
        (log[i].op = "get_organizations" /\ log[i].res = "empty") =>
            /\ pc = "done"
            /\ \E j \in DOMAIN log : j > i /\ log[j] = NoDataLine
            /\ \A j \in DOMAIN log :
                log[j].op \notin {"get_networks", "get_network_inventory",
                                  "get_device_statuses", "save_to_file"}
            /\ \A j \in DOMAIN log : j > i => log[j].op # "requests.get"
            /\ \A f \in Filenames : fs[f] = NoFile

\* C5 witness: the API answered GET /organizations with an empty list and
\* the run is over.
C5_Witness ==
    /\ pc = "done"
    /\ ~KeyMissing
    /\ organizations = PyList(<<>>)
    /\ Len(log) = 4
    /\ log[2] = Got(base_url \o "/organizations")
    /\ log[3].op = "get_organizations"
    /\ log[4] = NoDataLine

\* C10: save_to_file never raises: it returns True when the file was opened
\* and the data fully written, False when opening or writing failed, and the
\* file handle, if one was opened, is closed when it returns.
C10_SaveToFile ==
    \A i \in DOMAIN log :
        log[i].op = "save_to_file" =>
            LET f == fs[log[i].arg] IN
            /\ log[i].res \in {"True", "False"}
            /\ log[i].res = "True" <=> (f.opened /\ f.written)
            /\ f.handle # "open"
            /\ f.opened <=> f.handle = "closed"

\* C10 witness: a save whose file was opened but not fully written returned
\* False with the handle closed, and main went on.
C10_Witness ==
    /\ pc = "fetch_networks"
    /\ log[Len(log) - 2] = [op |-> "save_to_file", arg |-> "organizations.json", res |-> "False"]
    /\ fs["organizations.json"] = [opened |-> TRUE, written |-> FALSE, handle |-> "closed"]

(* ---------------------------------------------------------------------- *)
(* Properties of make_api_request and the fetchers                         *)
(* ---------------------------------------------------------------------- *)
\* what the claim expects of one result of make_api_request
RequestAsClaimed(r) ==
    /\ r.exc = "none"
    /\ (KeyMissing \/ net.exc # "none") => r.val = PyNone
    /\ (~KeyMissing /\ net.exc = "none") => r.val = net.body

\* C6: make_api_request never propagates an exception: an HTTP status error,
\* a transport error and any other failure, a failure to build the headers
\* included, make it return None, and a successful request returns the parsed
\* JSON body unchanged.
C6_RequestNeverRaises ==
    /\ request # NotCalled => RequestAsClaimed(request)
    /\ fetched # NotCalled => RequestAsClaimed(fetched.request)

\* C6 witness: with no API key the headers could not be built, no GET was
\* issued and make_api_request returned None.
C6_Witness ==
    /\ request # NotCalled
    /\ KeyMissing
    /\ net.exc = "none"
    /\ request = RequestResult("none", PyNone, <<"Unexpected error: ValueError">>, <<>>)

\* C7, as claimed: a fetcher returns the empty list when make_api_request
\* returns None and otherwise exactly the value make_api_request returned.
C7_CoalescesNoneOnly ==
    fetched # NotCalled =>
        /\ Returned(fetched.result)
        /\ fetched.request.val = PyNone => fetched.result.val = PyList(<<>>)
        /\ fetched.request.val # PyNone => fetched.result.val = fetched.request.val

\* C7, amended: a fetcher returns the empty list when make_api_request
\* returns None or another falsy value (empty list, empty object, empty
\* string, 0, false) and otherwise exactly the value make_api_request returned.
C7_CoalescesFalsy ==
    fetched # NotCalled =>
        /\ Returned(fetched.result)
        /\ fetched.request.val \in FalsyBodies => fetched.result.val = PyList(<<>>)
        /\ fetched.request.val \notin FalsyBodies =>
               fetched.result.val = fetched.request.val

\* C7 witness: get_device_availabilities on the body {} returned [].
C7_Witness ==
    /\ fetched # NotCalled
    /\ fetched.fn = "get_device_availabilities"
    /\ fetched.request.val = PyDict(EmptyDict)
    /\ fetched.result.val = PyList(<<>>)

(* ---------------------------------------------------------------------- *)
(* Properties of a run of main, continued                                  *)
(* ---------------------------------------------------------------------- *)
\* C11: with MERAKI_API_KEY unset or empty, get_api_key raises ValueError and
\* no HTTP request is issued: in every call of make_api_request made during
\* the run the headers are built, and fail, before requests.get is called.
C11_NoRequestWithoutKey ==
    KeyMissing =>
        /\ get_api_key(MERAKI_API_KEY) = Raise("ValueError")
        /\ \A i \in DOMAIN log : log[i].op # "requests.get"
        /\ \A i \in DOMAIN log :
            log[i].op \in FetchOps =>
                /\ i > 1
                /\ log[i - 1] = Printed("Unexpected error: ValueError")
                /\ log[i].res = "empty"

\* C11 witness: a finished run without API key: the ValueError was printed by
\* make_api_request and no GET was issued.
C11_Witness ==
    /\ pc = "done"
    /\ MERAKI_API_KEY = PyNone
    /\ log = <<Printed("Fetching Meraki organization data..."),
               Printed("Unexpected error: ValueError"),
               [op |-> "get_organizations", arg |-> "", res |-> "empty"],
               NoDataLine>>

\* C12: main always terminates normally, without propagating an exception,
\* whatever the API answers (failed requests, empty lists, records without
\* 'name', 'id' or 'serial') and whatever the saves do; failures are only
\* printed and the exit status stays 0.
C12_MainTerminatesNormally ==
    /\ [](pc # "raised" /\ exit_code = 0)
    /\ <>(pc = "done")

\* C12 witness: a run whose inventory held a device without 'serial': the
\* KeyError of get_device_details was printed by main, which then returned.
C12_Witness ==
    /\ pc = "done"
    /\ exit_code = 0
    /\ report = Raise("KeyError")
    /\ devices = PyList(<<[model |-> "Z"]>>)
    /\ log[Len(log)] = ErrorLine("KeyError")

\* the save of file f comes after a call of op
SaveAfter(f, op) ==
    \A i \in DOMAIN log :
        (log[i].op = "save_to_file" /\ log[i].arg = f) =>
            \E k \in DOMAIN log : k < i /\ log[k].op = op

\* a call of op comes after the save of file f
SaveBefore(f, op) ==
    \A j \in DOMAIN log :
        log[j].op = op =>
            \E i \in DOMAIN log : i < j /\ log[i].op = "save_to_file" /\ log[i].arg = f

\* C13, as claimed: no save_to_file call happens before the device-statuses
\* fetch and the generate_network_report call of the run.
C13_AllSavesAfterReport ==
    \A i \in DOMAIN log :
        log[i].op = "save_to_file" =>
            /\ \E k \in DOMAIN log : k < i /\ log[k].op = "get_device_statuses"
            /\ \E k \in DOMAIN log : k < i /\ log[k].op = "generate_network_report"

\* C13, amended: each data file is saved after the fetch of its data and
\* before the next fetch: organizations.json before the networks fetch,
\* networks.json before the inventory fetch, devices.json before the
\* device-statuses fetch; only network_report.json is saved after the
\* device-statuses fetch and the generate_network_report call.
C13_SavesFollowTheirFetch ==
    /\ SaveAfter("organizations.json", "get_organizations")
    /\ SaveBefore("organizations.json", "get_networks")
    /\ SaveAfter("networks.json", "get_networks")
    /\ SaveBefore("networks.json", "get_network_inventory")
    /\ SaveAfter("devices.json", "get_network_inventory")
    /\ SaveBefore("devices.json", "get_device_statuses")
    /\ SaveAfter("network_report.json", "get_device_statuses")
    /\ SaveAfter("network_report.json", "generate_network_report")

\* the files saved so far, in the order of their saves
RECURSIVE SavedFiles(_)
SavedFiles(events) ==
    IF events = <<>> THEN <<>>
    ELSE (IF Head(events).op = "save_to_file" THEN <<Head(events).arg>> ELSE <<>>)
             \o SavedFiles(Tail(events))

\* C13 witness: a complete run: three files were saved before the statuses
\* were fetched, the report file after the report was built.
C13_Witness ==
    /\ pc = "done"
    /\ Returned(report)
    /\ SavedFiles(log) = <<"organizations.json", "networks.json", "devices.json",
                           "network_report.json">>

\* the fetcher calls of the run and the GETs it issued, in program order
IsFetch(ev) == ev.op \in FetchOps
IsGet(ev) == ev.op = "requests.get"
FetchTrace == SelectSeq(log, IsFetch)
GetTrace == SelectSeq(log, IsGet)
FetchOrder == <<"get_organizations", "get_networks", "get_network_inventory",
                "get_device_statuses">>

\* the path the k-th fetch of a run has to ask for
ExpectedEndpoint(k) ==
    CASE k = 1 -> "/organizations"
      [] k = 2 -> "/organizations/" \o organizations.items[1].id \o "/networks"
      [] k = 3 -> "/networks/" \o networks.items[1].id \o "/devices"
      [] k = 4 -> "/organizations/" \o organizations.items[1].id \o "/devices/statuses"

\* C14: the fetches of a run are issued in the order organizations, networks,
\* inventory, statuses, each at most once and none retried; the networks and
\* the statuses fetch use the id of the first organization, the inventory
\* fetch the id of the first network; no fetch happens before all the
\* earlier ones.
C14_FetchOrder ==
    /\ Len(FetchTrace) <= 4
    /\ \A k \in DOMAIN FetchTrace :
        /\ FetchTrace[k].op = FetchOrder[k]
        /\ k \in {2, 4} => FetchTrace[k].arg = organizations.items[1].id
        /\ k = 3 => FetchTrace[k].arg = networks.items[1].id
    /\ Len(GetTrace) <= Len(FetchTrace)
    /\ ~KeyMissing =>
        /\ Len(GetTrace) = Len(FetchTrace)
        /\ \A k \in DOMAIN GetTrace : GetTrace[k].arg = base_url \o ExpectedEndpoint(k)

\* C14 witness: a run over two organizations and two networks made its four
\* fetches, with the ids of the first organization and the first network.
C14_Witness ==
    /\ pc = "done"
    /\ organizations.type = "list"
    /\ Len(organizations.items) = 2
    /\ Len(FetchTrace) = 4
    /\ FetchTrace[2].arg = "org1"
    /\ FetchTrace[3].arg = "net1"
    /\ FetchTrace[4].arg = "org1"
    /\ GetTrace[4].arg = base_url \o "/organizations/org1/devices/statuses"

(* ---------------------------------------------------------------------- *)
(* Properties of get_device_details, continued                             *)
(* ---------------------------------------------------------------------- *)
HasSerial(s) == "serial" \in DOMAIN s
\* the position of the last entry of the status list that carries serial sn
LastEntryFor(sn) == CHOOSE j \in EntriesFor(sn) : \A k \in EntriesFor(sn) : k <= j

\* C15: when several entries of the status list carry the same serial, every
\* device with that serial gets the status of the last of them in list order,
\* and status entries without a 'serial' are ignored: the result is the one
\* of the list without them.
C15_LastStatusWins ==
    (detailed_devices # NotCalled /\ AllHaveSerial(D)) =>
        /\ Returned(detailed_devices)
        /\ \A i \in DOMAIN D :
            EntriesFor(D[i].serial) # {} =>
                detailed_devices.val[i].status = S[LastEntryFor(D[i].serial)].status
        /\ detailed_devices = get_device_details(D, SelectSeq(S, HasSerial))

\* C15 witness: two entries for serial A with different statuses, and the
\* device A has the status of the second.
C15_Witness ==
    /\ Returned(detailed_devices)
    /\ Len(D) > 0
    /\ D[1].serial = "A"
    /\ EntriesFor("A") = {1, 2}
    /\ S[1].status = "online"
    /\ S[2].status = "offline"
    /\ detailed_devices.val[1].status = "offline"

\* C15 witness of the second half: an entry without 'serial' came last and
\* left the status of device A as its own entry gave it.
C15_WitnessNoSerial ==
    /\ Returned(detailed_devices)
    /\ Len(D) > 0
    /\ D[1].serial = "A"
    /\ S = <<[serial |-> "A", status |-> "offline"], [status |-> "online"]>>
    /\ detailed_devices.val[1].status = "offline"

====
